---- MODULE Spec2Model ----
(***************************************************************************)
(* Tile-world engine of mythara: the layer reconciler                      *)
(* (process_loaded_maps), the Collision Grid resource (CollisionTiles)     *)
(* and the movement query (apply_movement, world_to_iso_tile).             *)
(*                                                                         *)
(* World coordinates are integers (world units); the f32 arithmetic of     *)
(* the source is modelled as exact arithmetic on them.  Layer and tileset  *)
(* indices are 0-based as in the source (enumerate()); the sequences that  *)
(* hold them are 1-based, so element i of a sequence has source index i-1. *)
(***************************************************************************)
EXTENDS Integers, Sequences, FiniteSets, TLC

(***************************************************************************)
(* Bounds of the model.                                                    *)
(***************************************************************************)
\* number of frames (runs of the Update schedule) in a behaviour
MaxTicks == 3
\* number of asset events the asset system emits in a behaviour
MaxEvents == 3
\* number of asset events in a behaviour that also schedules movement
MaxSchedEvents == 2
\* number of asset events in a behaviour of the scene with one level
MaxSceneEvents == 1
\* number of asset events in a behaviour where documents are removed and added again
MaxBatchEvents == 4
MaxRemovalEvents == 3
\* number of loads, good or failed, in a behaviour where map files may not parse
MaxLoads == 2
\* number of asset events in a behaviour that reloads the document of many layer kinds
MaxLayerEvents == 2
\* number of frames of the player's animation systems in a behaviour
MaxFrames == 9
\* largest width and height of the maps the coordinate transform is probed with
MaxMapSize == 3
\* bits of significand the model keeps of an f32 (an f32 keeps 24)
Precision == 6
\* bits after the binary point of the fixed-point numbers that carry an f32
FractionBits == 8

(***************************************************************************)
(* Documents (AssetId<TiledMap>) and map instances (entities that carry a  *)
(* TiledMapHandle and a TiledLayersStorage).                               *)
(***************************************************************************)
Docs == {1, 2, 3}
Maps == {1, 2, 3}

\* TiledMapHandle of each map instance: the document it is bound to.
TiledMapHandle == <<1, 2, 3>>

NoFlip == <<FALSE, FALSE, FALSE>>

\* One cell of a finite tile layer in source (TMX) coordinates: get_tile(x, y)
\* is Some for it; ts is tileset_index(), id is id(), flip is (flip_h, flip_v, flip_d).
Cell(x, y, ts, id, flip) == [x |-> x, y |-> y, ts |-> ts, id |-> id, flip |-> flip]

\* A layer of a tiled::Map.  kind is "finite" (LayerType::Tiles, TileLayer::Finite),
\* "infinite" (LayerType::Tiles, TileLayer::Infinite) or "object" (any other LayerType).
Layer(name, kind, ox, oy, cells) ==
    [name |-> name, kind |-> kind, offset_x |-> ox, offset_y |-> oy, cells |-> cells]

\* The contents a document can have (the tiled::Map the loader parsed).
\* 1: one tileset, a Ground and a Collisions layer.
\* 2: two tilesets with images, both with tiles in both layers.
\* 3: one tileset, a Ground layer only.
\* 4: a tileset without image and one with; the Collisions layer, which has an
\*    offset, holds tiles of the image-less tileset only.
\* 5: a 3x2 map with an object layer and an infinite layer named "Collisions", a
\*    finite layer named "collisions" and a Ground layer.
\* 6: a 3x3 map of 32x32 tiles whose Collisions layer has cell (1,1) occupied.
\* 7: an Orthogonal map, one tileset, a Ground layer only.
\* 8: a Staggered map, one tileset, a Ground layer only.
\* 9: a 3x2 map whose Collisions layer has cells of the first and the last column.
\* 10: a 3x3 map of 256x128 tiles, wider than a small window, whose Collisions
\*     layer has its left corner cell occupied.
MapDocs == <<
    [ width |-> 2, height |-> 2, tile_width |-> 4, tile_height |-> 2,
      orientation |-> "Isometric",
      tilesets |-> << [image |-> TRUE] >>,
      layers |-> <<
        Layer("Ground", "finite", 0, 0,
              { Cell(0, 0, 0, 1, NoFlip), Cell(1, 1, 0, 2, <<TRUE, FALSE, FALSE>>) }),
        Layer("Collisions", "finite", 0, 0,
              { Cell(1, 0, 0, 3, NoFlip) }) >> ],
    [ width |-> 2, height |-> 2, tile_width |-> 4, tile_height |-> 2,
      orientation |-> "Isometric",
      tilesets |-> << [image |-> TRUE], [image |-> TRUE] >>,
      layers |-> <<
        Layer("Ground", "finite", 0, 0,
              { Cell(0, 1, 0, 1, NoFlip), Cell(1, 1, 1, 0, <<FALSE, TRUE, FALSE>>) }),
        Layer("Collisions", "finite", 0, 0,
              { Cell(0, 0, 0, 3, NoFlip), Cell(1, 1, 1, 1, NoFlip) }) >> ],
    [ width |-> 2, height |-> 2, tile_width |-> 4, tile_height |-> 2,
      orientation |-> "Isometric",
      tilesets |-> << [image |-> TRUE] >>,
      layers |-> <<
        Layer("Ground", "finite", 0, 0,
              { Cell(0, 0, 0, 1, NoFlip) }) >> ],
    [ width |-> 2, height |-> 2, tile_width |-> 4, tile_height |-> 2,
      orientation |-> "Isometric",
      tilesets |-> << [image |-> FALSE], [image |-> TRUE] >>,
      layers |-> <<
        Layer("Ground", "finite", 0, 0,
              { Cell(0, 0, 0, 1, NoFlip), Cell(1, 0, 1, 2, <<FALSE, FALSE, TRUE>>),
                Cell(1, 1, 1, 3, NoFlip) }),
        Layer("Collisions", "finite", 4, 2,
              { Cell(0, 1, 0, 4, NoFlip) }) >> ],
    [ width |-> 3, height |-> 2, tile_width |-> 4, tile_height |-> 2,
      orientation |-> "Isometric",
      tilesets |-> << [image |-> TRUE] >>,
      layers |-> <<
        Layer("Collisions", "object", 0, 0, {}),
        Layer("Collisions", "infinite", 0, 0,
              { Cell(0, 0, 0, 1, NoFlip) }),
        Layer("collisions", "finite", 0, 0,
              { Cell(1, 0, 0, 2, NoFlip) }),
        Layer("Ground", "finite", 0, 0,
              { Cell(2, 1, 0, 3, <<TRUE, TRUE, FALSE>>), Cell(0, 0, 0, 1, NoFlip) }) >> ],
    [ width |-> 3, height |-> 3, tile_width |-> 32, tile_height |-> 32,
      orientation |-> "Isometric",
      tilesets |-> << [image |-> TRUE] >>,
      layers |-> <<
        Layer("Collisions", "finite", 0, 0,
              { Cell(1, 1, 0, 1, NoFlip) }) >> ],
    [ width |-> 2, height |-> 2, tile_width |-> 4, tile_height |-> 4,
      orientation |-> "Orthogonal",
      tilesets |-> << [image |-> TRUE] >>,
      layers |-> <<
        Layer("Ground", "finite", 0, 0,
              { Cell(1, 0, 0, 2, NoFlip) }) >> ],
    [ width |-> 2, height |-> 2, tile_width |-> 4, tile_height |-> 2,
      orientation |-> "Staggered",
      tilesets |-> << [image |-> TRUE] >>,
      layers |-> <<
        Layer("Ground", "finite", 0, 0,
              { Cell(0, 1, 0, 1, NoFlip) }) >> ],
    [ width |-> 3, height |-> 2, tile_width |-> 4, tile_height |-> 2,
      orientation |-> "Isometric",
      tilesets |-> << [image |-> TRUE] >>,
      layers |-> <<
        Layer("Ground", "finite", 0, 0,
              { Cell(1, 1, 0, 1, NoFlip) }),
        Layer("Collisions", "finite", 0, 0,
              { Cell(0, 0, 0, 2, NoFlip), Cell(2, 1, 0, 2, NoFlip) }) >> ],
    [ width |-> 3, height |-> 3, tile_width |-> 256, tile_height |-> 128,
      orientation |-> "Isometric",
      tilesets |-> << [image |-> TRUE] >>,
      layers |-> <<
        Layer("Collisions", "finite", 0, 0,
              { Cell(0, 2, 0, 1, NoFlip) }) >> ]
>>

\* The contents each document's file can have when it is loaded or reloaded.
DocVersions == <<{1, 2}, {3}, {1, 4, 5, 6, 7, 8, 9, 10}>>

\* Assets<TiledMap> holds no asset under an id.
Unloaded == 0
\* The load of the document returned Err: Assets holds nothing for it, as for
\* a document still loading, and the asset system does not load it again.
Failed == -1


(***************************************************************************)
(* State.                                                                  *)
(***************************************************************************)
VARIABLES
    assets,        \* Assets<TiledMap>: document id -> index in MapDocs, or Unloaded
    events,        \* unread AssetEvent<TiledMap> messages, oldest first
    nEvents,       \* number of asset events emitted so far
    spawned,       \* map instances alive (map_query)
    newMaps,       \* map instances matching Added<TiledMapHandle> (new_maps)
    storage,       \* TiledLayersStorage.storage of each map instance: layer index -> entity
    layerEnts,     \* live layer entities (those tile_storage_query finds)
    tileEnts,      \* live tile entities
    collisions,    \* the CollisionTiles resource
    nextEntity,    \* next entity id Commands reserves
    pc,            \* position of process_loaded_maps: "idle" or "rebuild"
    changed_maps,  \* the local changed_maps of the running (or last) pass
    work,          \* rest of the loops of the running pass, next iteration first
    layer_entity,  \* the local layer_entity of the (tileset, layer) iteration
    despawns,      \* Commands queue: entities to despawn
    spawnTiles,    \* Commands queue: tile entities to spawn
    spawnLayers,   \* Commands queue: layer entities to insert a TilemapBundle into
    ran,           \* systems of the Update schedule that have run in this tick
    tick,          \* number of completed ticks
    render_settings, \* TilemapRenderSettings of each map instance
    position,      \* Transform.translation.xy of the actor
    player,        \* PlayerAnimation and Sprite of the player, and the phase of its tick
    hist           \* history of the pass and the movement query, read by the properties only

vars == << assets, events, nEvents, spawned, newMaps, storage, layerEnts, tileEnts,
           collisions, nextEntity, pc, changed_maps, work, layer_entity,
           despawns, spawnTiles, spawnLayers, ran, tick,
           render_settings, position, player, hist >>

assetVars == << assets, events, nEvents >>
worldVars == << storage, layerEnts, tileEnts, nextEntity, render_settings >>
passVars  == << pc, changed_maps, work, layer_entity, despawns, spawnTiles, spawnLayers >>

(***************************************************************************)
(* The map document as the reconciler reads it.                            *)
(***************************************************************************)
\* TiledMap.tilemap_textures as TiledLoader::load fills it: the indices of the
\* tilesets that have an image.
TilemapTextures(doc) ==
    { i - 1 : i \in { j \in DOMAIN doc.tilesets : doc.tilesets[j].image } }

\* layer_data.get_tile(x, y): the cells at source coordinates (x, y), none or one.
GetTile(layer, x, y) == { c \in layer.cells : c.x = x /\ c.y = y }

\* The engine positions (x, y) of a (tileset, layer) iteration for which a tile
\* is emitted: get_tile(x, height - 1 - y) is Some and belongs to the tileset.
Emitted(doc, ts, li) ==
    { p \in (0 .. doc.width - 1) \X (0 .. doc.height - 1) :
        \E c \in GetTile(doc.layers[li + 1], p[1], doc.height - 1 - p[2]) : c.ts = ts }

\* The cell behind an emitted engine position.
TileAt(doc, li, p) ==
    CHOOSE c \in GetTile(doc.layers[li + 1], p[1], doc.height - 1 - p[2]) : TRUE

\* Position of p in the order of the loops `for x in 0..map_size.x`, `for y in 0..map_size.y`.
Rank(S, p) ==
    Cardinality({ q \in S : q[1] < p[1] \/ (q[1] = p[1] /\ q[2] < p[2]) })

\* The iterations when every layer, whatever its kind, reaches the layer build.
RECURSIVE LayerPairsEveryKind(_, _, _)
LayerPairsEveryKind(doc, ts, li) ==
    IF ts >= Len(doc.tilesets) THEN << >>
    ELSE IF li >= Len(doc.layers) THEN LayerPairsEveryKind(doc, ts + 1, 0)
    ELSE IF ts \notin TilemapTextures(doc) THEN LayerPairsEveryKind(doc, ts + 1, 0)
    ELSE << <<ts, li>> >> \o LayerPairsEveryKind(doc, ts, li + 1)

\* The iterations when a tileset without texture ends the rebuild of the map.
RECURSIVE LayerPairsAbort(_, _, _)
LayerPairsAbort(doc, ts, li) ==
    IF ts >= Len(doc.tilesets) THEN << >>
    ELSE IF li >= Len(doc.layers) THEN LayerPairsAbort(doc, ts + 1, 0)
    ELSE IF ts \notin TilemapTextures(doc) THEN << >>
    ELSE IF doc.layers[li + 1].kind # "finite" THEN LayerPairsAbort(doc, ts, li + 1)
    ELSE << <<ts, li>> >> \o LayerPairsAbort(doc, ts, li + 1)

\* The (tileset_index, layer_index) iterations that reach the layer build, in loop
\* order: the tileset has a texture, the layer is a finite tile layer.
RECURSIVE LayerPairs(_, _, _)
LayerPairs(doc, ts, li) ==
    IF ts >= Len(doc.tilesets) THEN << >>
    ELSE IF li >= Len(doc.layers) THEN LayerPairs(doc, ts + 1, 0)
    ELSE IF ts \notin TilemapTextures(doc) THEN LayerPairs(doc, ts + 1, 0)
    ELSE IF doc.layers[li + 1].kind # "finite" THEN LayerPairs(doc, ts, li + 1)
    ELSE << <<ts, li>> >> \o LayerPairs(doc, ts, li + 1)

\* The CollisionTiles resource after init_resource (Default).
EmptyCollisions ==
    [blocked |-> {}, map_size |-> <<0, 0>>, grid_size |-> <<0, 0>>, layer_offset |-> <<0, 0>>]


\* TilemapRenderSettings of a TiledMapBundle built with Default.
DefaultRenderSettings == [render_chunk_size |-> <<64, 64>>, y_sort |-> FALSE]

\* No entity: the value of layer_entity outside a (tileset, layer) iteration.
NoEntity == 0

\* The elements of a finite set of integers in ascending order.
RECURSIVE SortedSeq(_)
SortedSeq(S) ==
    IF S = {} THEN << >>
    ELSE LET lo == CHOOSE a \in S : \A b \in S : a <= b
         IN  << lo >> \o SortedSeq(S \ {lo})

(***************************************************************************)
(* What the properties read off the world.                                 *)
(***************************************************************************)
\* The live tile entities whose TilemapId is a live layer entity built for map m.
TilesOf(m, layers, tiles) ==
    { t \in tiles : \E l \in layers : l.id = t.tilemap_id /\ l.map = m }

\* A tile placement: position, texture index, flip flags and owning layer index.
Placement(t, layers) ==
    [ position |-> t.position, texture_index |-> t.texture_index, flip |-> t.flip,
      layer_index |-> (CHOOSE l \in layers : l.id = t.tilemap_id).index ]

\* The live tile placements of map m with the number of tile entities that carry each.
PlacementBag(m, layers, tiles) ==
    LET ts == TilesOf(m, layers, tiles)
    IN  [ p \in { Placement(t, layers) : t \in ts } |->
            Cardinality({ t \in ts : Placement(t, layers) = p }) ]

\* What a reconciliation of map m leaves: Collision Grid, registry keys, placements.
Summary(m, st, layers, tiles, coll) ==
    [ grid |-> coll, registry |-> DOMAIN st[m], placements |-> PlacementBag(m, layers, tiles) ]

NoBuild == [ver |-> Unloaded]
NoMove == [done |-> FALSE]
NoProbe == [done |-> FALSE]
NoCall == [done |-> FALSE]

Abs(n) == IF n < 0 THEN -n ELSE n

(***************************************************************************)
(* PlayerAnimation and the player's Sprite.  Time is in milliseconds.      *)
(***************************************************************************)
IDLE_FRAMES == 8
IDLE_INTERVAL == 100
RUN_FRAMES == 8
RUN_INTERVAL == 50

\* Timer::new(duration, TimerMode::Repeating)
NewTimer(duration) == [elapsed |-> 0, duration |-> duration, finished |-> FALSE]

\* Timer::tick for a repeating timer: finished tells whether the timer completed
\* during this tick, and the elapsed time wraps around the duration.
TimerTick(timer, delta) ==
    LET e == timer.elapsed + delta
    IN  IF e >= timer.duration
        THEN [timer EXCEPT !.elapsed = e % timer.duration, !.finished = TRUE]
        ELSE [timer EXCEPT !.elapsed = e, !.finished = FALSE]

Interval(state) == IF state = "Idling" THEN IDLE_INTERVAL ELSE RUN_INTERVAL
Frames(state) == IF state = "Idling" THEN IDLE_FRAMES ELSE RUN_FRAMES

\* idling_north() ... running_west(): a fresh animation of a state and direction.
Fresh(state, direction) ==
    [ timer |-> NewTimer(Interval(state)), frame |-> 0,
      state |-> state, direction |-> direction ]

\* PlayerAnimation::update_timer
UpdateTimer(a, delta) ==
    LET timer == TimerTick(a.timer, delta)
    IN  IF ~ timer.finished
        THEN [a EXCEPT !.timer = timer]
        ELSE [a EXCEPT !.timer = timer, !.frame = (a.frame + 1) % Frames(a.state)]

\* update_state_and_direction that starts the animation anew at every call.
UpdateStateAndDirectionAlways(a, state, direction) == Fresh(state, direction)

\* PlayerAnimation::update_state_and_direction
UpdateStateAndDirection(a, state, direction) ==
    IF a.state # state \/ a.direction # direction
    THEN Fresh(state, direction)
    ELSE a

\* PlayerAnimation::changed
Changed(a) == a.timer.finished

\* PlayerAnimation::get_atlas_index
GetAtlasIndex(a) == a.frame

\* The match of update_animation_atlas on (state, direction).
SpritesheetIndex(state, direction) ==
    (IF state = "Idling" THEN 0 ELSE 4)
      + (CASE direction = "East" -> 0 [] direction = "North" -> 1
           [] direction = "South" -> 2 [] direction = "West" -> 3)

\* The state and direction update_animation_movement asks for.
RequestedState(intent) == IF intent # <<0, 0>> THEN "Running" ELSE "Idling"
RequestedDirection(intent, current) ==
    IF intent = <<0, 0>> THEN current
    ELSE IF Abs(intent[1]) > Abs(intent[2])
         THEN (IF intent[1] > 0 THEN "East" ELSE "West")
         ELSE (IF intent[2] > 0 THEN "North" ELSE "South")

\* The player bundle: PlayerAnimation::new() is idling_south(), the sprite shows
\* spritesheets[2] at the animation's atlas index.
NewPlayer ==
    [ animation |-> Fresh("Idling", "South"),
      sprite |-> [image |-> 2, index |-> 0],
      phase |-> "timer" ]

Init ==
    /\ assets = [d \in Docs |-> Unloaded]
    /\ events = << >>
    /\ nEvents = 0
    /\ spawned = {1}
    /\ newMaps = {1}
    /\ storage = [m \in Maps |-> << >>]
    /\ layerEnts = {}
    /\ tileEnts = {}
    /\ collisions = EmptyCollisions
    /\ nextEntity = 1
    /\ pc = "idle"
    /\ changed_maps = << >>
    /\ work = << >>
    /\ layer_entity = NoEntity
    /\ despawns = {}
    /\ spawnTiles = {}
    /\ spawnLayers = {}
    /\ ran = {}
    /\ tick = 0
    /\ render_settings = [m \in Maps |-> DefaultRenderSettings]
    /\ position = <<0, 0>>
    /\ player = NewPlayer
    /\ hist = [ batch |-> << >>, discovered |-> {}, rebuilt |-> << >>, retired |-> {},
                gridBefore |-> EmptyCollisions, passes |-> 0, firstEntity |-> 1,
                probe |-> NoProbe, anim |-> NoCall,
                worldBefore |-> [storage |-> storage, layerEnts |-> layerEnts,
                                 tileEnts |-> tileEnts],
                lastBuild |-> [m \in Maps |-> NoBuild],
                prevBuild |-> [m \in Maps |-> NoBuild],
                move |-> NoMove ]

(***************************************************************************)
(* The asset system and the level: what happens between two ticks.         *)
(***************************************************************************)
BetweenTicks == pc = "idle" /\ ran = {} /\ tick < MaxTicks

AssetEvent(kind, d) == [kind |-> kind, id |-> d]

\* A document finishes loading: Assets holds it, AssetEvent::Added is sent.
AssetAdded(d, v, cap) ==
    /\ BetweenTicks
    /\ nEvents < cap
    /\ assets[d] = Unloaded
    /\ v \in DocVersions[d]
    /\ assets' = [assets EXCEPT ![d] = v]
    /\ events' = Append(events, AssetEvent("Added", d))
    /\ nEvents' = nEvents + 1
    /\ UNCHANGED << spawned, newMaps, worldVars, collisions, passVars, ran, tick,
                    position, hist, player >>

\* A loaded document is replaced (hot reload): AssetEvent::Modified is sent.
AssetModified(d, v, cap) ==
    /\ BetweenTicks
    /\ nEvents < cap
    /\ assets[d] # Unloaded
    /\ v \in DocVersions[d]
    /\ assets' = [assets EXCEPT ![d] = v]
    /\ events' = Append(events, AssetEvent("Modified", d))
    /\ nEvents' = nEvents + 1
    /\ UNCHANGED << spawned, newMaps, worldVars, collisions, passVars, ran, tick,
                    position, hist, player >>

\* A loaded document is removed from Assets: AssetEvent::Removed is sent.
AssetRemoved(d, cap) ==
    /\ BetweenTicks
    /\ nEvents < cap
    /\ assets[d] # Unloaded
    /\ assets' = [assets EXCEPT ![d] = Unloaded]
    /\ events' = Append(events, AssetEvent("Removed", d))
    /\ nEvents' = nEvents + 1
    /\ UNCHANGED << spawned, newMaps, worldVars, collisions, passVars, ran, tick,
                    position, hist, player >>

\* A failed load announced as if the document had been added.
FailureNotificationsAdded(d) == << AssetEvent("Added", d) >>

\* The AssetEvent<TiledMap> messages a load that returns Err gives rise to: none.
FailureNotifications(d) == << >>

\* The map file does not parse: load_tmx_map fails and load returns
\* Err(TiledAssetLoaderError::Io) before a TiledMap is built.
AssetLoadFailed(d, cap) ==
    /\ BetweenTicks
    /\ nEvents < cap
    /\ assets[d] = Unloaded
    /\ assets' = [assets EXCEPT ![d] = Failed]
    /\ events' = events \o FailureNotifications(d)
    /\ nEvents' = nEvents + 1
    /\ UNCHANGED << spawned, newMaps, worldVars, collisions, passVars, ran, tick,
                    position, hist, player >>

\* A map entity is spawned from the bundle map() returns.
SpawnMap(m) ==
    /\ BetweenTicks
    /\ m \notin spawned
    /\ spawned' = spawned \cup {m}
    /\ newMaps' = newMaps \cup {m}
    /\ UNCHANGED << assetVars, worldVars, collisions, passVars, ran, tick, position, hist, player >>


(***************************************************************************)
(* process_loaded_maps.  The pass runs in steps, one per loop iteration,   *)
(* so that the states inside a pass exist; nothing but the pass itself     *)
(* runs between two of its steps.                                          *)
(***************************************************************************)
\* changed_maps.retain(|changed_handle| changed_handle == id)
Retain(changed, id) ==
    LET Keep(changed_handle) == changed_handle = id
    IN  SelectSeq(changed, Keep)

\* The loop over map_events.read(): changed_maps after the events evs[i..].
RECURSIVE CollectEvents(_, _, _)
CollectEvents(evs, i, changed) ==
    IF i > Len(evs) THEN changed
    ELSE LET ev == evs[i]
         IN  CollectEvents(evs, i + 1,
                 IF ev.kind \in {"Added", "Modified"} THEN Append(changed, ev.id)
                 ELSE IF ev.kind = "Removed" THEN Retain(changed, ev.id)
                 ELSE changed)

\* A pass that learns of changes from the asset events alone.
PushNewMapsNone(changed, ms) == changed

\* The loop over new_maps: the document of every new map entity is pushed.
RECURSIVE PushNewMaps(_, _)
PushNewMaps(changed, ms) ==
    IF ms = << >> THEN changed
    ELSE PushNewMaps(Append(changed, TiledMapHandle[Head(ms)]), Tail(ms))

MapItem(m) == [kind |-> "map", m |-> m, ts |-> 0, li |-> 0]
LayerItem(m, pair) == [kind |-> "layer", m |-> m, ts |-> pair[1], li |-> pair[2]]

\* The iterations of `for changed_map in changed_maps` x `for ... in map_query`
\* that pass the test map_handle.0.id() == *changed_map, in loop order.
RECURSIVE MapItems(_, _)
MapItems(changed, live) ==
    IF changed = << >> THEN << >>
    ELSE LET ms == SortedSeq({ m \in live : TiledMapHandle[m] = Head(changed) })
         IN  [ i \in 1 .. Len(ms) |-> MapItem(ms[i]) ] \o MapItems(Tail(changed), live)

\* The system starts: the events are read, the new map entities are added.
BeginPass ==
    /\ pc = "idle"
    /\ "reconcile" \notin ran
    /\ tick < MaxTicks
    /\ LET changed == PushNewMaps(CollectEvents(events, 1, << >>), SortedSeq(newMaps))
       IN  /\ changed_maps' = changed
           /\ work' = MapItems(changed, spawned)
    /\ pc' = "rebuild"
    /\ events' = << >>
    /\ newMaps' = {}
    /\ hist' = [hist EXCEPT !.batch = events, !.discovered = newMaps, !.rebuilt = << >>,
                            !.retired = {}, !.gridBefore = collisions,
                            !.worldBefore = [storage |-> storage, layerEnts |-> layerEnts,
                                             tileEnts |-> tileEnts],
                            !.firstEntity = nextEntity]
    /\ UNCHANGED << assets, nEvents, spawned, worldVars, collisions, layer_entity,
                    despawns, spawnTiles, spawnLayers, ran, tick, position, player >>

\* A teardown that does not ask whether the document is loaded.
TileDespawnsAlways(v, found) == UNION { l.storage : l \in found }

\* The despawns the teardown loop queues: it is inside `if let Some(tiled_map) =
\* maps.get(..)`, so none when Assets holds nothing for the document.
TileDespawns(v, found) ==
    IF v \in {Unloaded, Failed} THEN {} ELSE UNION { l.storage : l \in found }

\* One map instance of a changed document: if the document is loaded, a despawn
\* is queued for every tile of every registered layer the world holds, and the
\* (tileset, layer) iterations follow.
RebuildMap ==
    /\ pc = "rebuild"
    /\ work # << >>
    /\ Head(work).kind = "map"
    /\ LET m == Head(work).m
           v == assets[TiledMapHandle[m]]
           registered == { storage[m][i] : i \in DOMAIN storage[m] }
           found == { l \in layerEnts : l.id \in registered }
           pairs == LayerPairs(MapDocs[v], 0, 0)
       IN  IF v \in {Unloaded, Failed}
           THEN /\ despawns' = despawns \cup TileDespawns(v, found)
                /\ work' = Tail(work)
                /\ UNCHANGED << hist, player >>
           ELSE /\ despawns' = despawns \cup TileDespawns(v, found)
                /\ work' = [ i \in 1 .. Len(pairs) |-> LayerItem(m, pairs[i]) ] \o Tail(work)
                /\ hist' = [hist EXCEPT !.rebuilt = Append(@, m),
                                        !.retired = @ \cup registered]
    /\ UNCHANGED << assetVars, spawned, newMaps, worldVars, collisions, pc, changed_maps,
                    layer_entity, spawnTiles, spawnLayers, ran, tick, position, player >>

\* A layer name compared without regard to case.
IsCollisionLayerAnyCase(layer) == layer.name \in {"Collisions", "collisions", "COLLISIONS"}

\* let is_collision_layer = layer.name == "Collisions";
IsCollisionLayer(layer) == layer.name = "Collisions"

\* The grid cleared with the layer offset stored as the document gives it.
ClearedCollisionsRawOffset(doc, layer) ==
    [ blocked |-> {},
      map_size |-> <<doc.width, doc.height>>,
      grid_size |-> <<doc.tile_width, doc.tile_height>>,
      layer_offset |-> <<layer.offset_x, layer.offset_y>> ]

\* The body of `if is_collision_layer`: blocked cleared, map_size, grid_size and
\* layer_offset = (offset_x, -offset_y) set.
ClearedCollisions(doc, layer) ==
    [ blocked |-> {},
      map_size |-> <<doc.width, doc.height>>,
      grid_size |-> <<doc.tile_width, doc.tile_height>>,
      layer_offset |-> <<layer.offset_x, -layer.offset_y>> ]

\* Start of a (tileset, layer) iteration: the layer entity is reserved and, for
\* the layer named "Collisions", the Collision Grid is cleared and re-parameterised.
PrepareLayer ==
    /\ pc = "rebuild"
    /\ work # << >>
    /\ Head(work).kind = "layer"
    /\ layer_entity = NoEntity
    /\ LET doc == MapDocs[assets[TiledMapHandle[Head(work).m]]]
           layer == doc.layers[Head(work).li + 1]
       IN  collisions' =
             IF IsCollisionLayer(layer) THEN ClearedCollisions(doc, layer) ELSE collisions
    /\ layer_entity' = nextEntity
    /\ nextEntity' = nextEntity + 1
    /\ UNCHANGED << assetVars, spawned, newMaps, storage, layerEnts, tileEnts,
                    render_settings, pc, changed_maps, work, despawns, spawnTiles,
                    spawnLayers, ran, tick, position, hist, player >>

\* The cell loop placing each tile at the row it has in the source.
NewTilesSourceRow(doc, ts, li, first, layer) ==
    LET em == Emitted(doc, ts, li)
    IN  { [ id |-> first + Rank(em, p),
            position |-> << p[1], doc.height - 1 - p[2] >>,
            tilemap_id |-> layer,
            texture_index |-> TileAt(doc, li, p).id,
            flip |-> TileAt(doc, li, p).flip ] : p \in em }

\* The tile entities the cell loop of a (tileset, layer) iteration spawns.
NewTiles(doc, ts, li, first, layer) ==
    LET em == Emitted(doc, ts, li)
    IN  { [ id |-> first + Rank(em, p),
            position |-> p,
            tilemap_id |-> layer,
            texture_index |-> TileAt(doc, li, p).id,
            flip |-> TileAt(doc, li, p).flip ] : p \in em }

\* The cell loop recording the position of the tile as it is.
RotatedNot(doc, p) == p

\* The coordinate the cell loop records for the tile at engine position p.
Rotated(doc, p) == << p[2], doc.width - 1 - p[1] >>

\* render_settings after the test on map_type.
RenderSettingsFor(doc, settings) ==
    IF doc.orientation = "Isometric"
    THEN [render_chunk_size |-> <<1, 1>>, y_sort |-> TRUE]
    ELSE settings

\* Rest of a (tileset, layer) iteration: the cell loop, the TilemapBundle, the
\* registration under the layer index.
FillLayer ==
    /\ pc = "rebuild"
    /\ work # << >>
    /\ Head(work).kind = "layer"
    /\ layer_entity # NoEntity
    /\ LET m == Head(work).m
           ts == Head(work).ts
           li == Head(work).li
           doc == MapDocs[assets[TiledMapHandle[m]]]
           layer == doc.layers[li + 1]
           new == NewTiles(doc, ts, li, nextEntity, layer_entity)
           settings == RenderSettingsFor(doc, render_settings[m])
       IN  /\ spawnTiles' = spawnTiles \cup new
           /\ nextEntity' = nextEntity + Cardinality(new)
           /\ collisions' =
                IF IsCollisionLayer(layer)
                THEN [collisions EXCEPT
                        !.blocked = @ \cup { Rotated(doc, p) : p \in Emitted(doc, ts, li) }]
                ELSE collisions
           /\ render_settings' = [render_settings EXCEPT ![m] = settings]
           /\ spawnLayers' = spawnLayers \cup
                { [ id |-> layer_entity, map |-> m, index |-> li, tileset |-> ts,
                    storage |-> { t.id : t \in new },
                    translation |-> <<layer.offset_x, -layer.offset_y, li>>,
                    map_type |-> doc.orientation,
                    render_settings |-> settings ] }
           /\ storage' = [storage EXCEPT ![m] =
                [ i \in DOMAIN storage[m] \cup {li} |->
                    IF i = li THEN layer_entity ELSE storage[m][i] ]]
    /\ layer_entity' = NoEntity
    /\ work' = Tail(work)
    /\ UNCHANGED << assetVars, spawned, newMaps, layerEnts, tileEnts, pc, changed_maps,
                    despawns, ran, tick, position, hist, player >>

\* The system returns and its Commands are applied to the world.
EndPass ==
    /\ pc = "rebuild"
    /\ work = << >>
    /\ tileEnts' = { t \in tileEnts : t.id \notin despawns } \cup spawnTiles
    /\ layerEnts' = layerEnts \cup spawnLayers
    /\ despawns' = {}
    /\ spawnTiles' = {}
    /\ spawnLayers' = {}
    /\ pc' = "idle"
    /\ ran' = ran \cup {"reconcile"}
    /\ LET built == { hist.rebuilt[i] : i \in DOMAIN hist.rebuilt }
       IN  hist' = [hist EXCEPT
             !.passes = @ + 1,
             !.prevBuild = [m \in Maps |-> IF m \in built THEN hist.lastBuild[m] ELSE @[m]],
             !.lastBuild = [m \in Maps |->
                 IF m \in built
                 THEN [ ver |-> assets[TiledMapHandle[m]], pass |-> hist.passes + 1,
                        sum |-> Summary(m, storage, layerEnts', tileEnts', collisions) ]
                 ELSE @[m]]]
    /\ UNCHANGED << assetVars, spawned, newMaps, storage, nextEntity, render_settings,
                    collisions, changed_maps, work, layer_entity, tick, position, player >>

\* The frame ends once every system of the schedule has run.
EndTick(systems) ==
    /\ pc = "idle"
    /\ ran = systems
    /\ ran' = {}
    /\ tick' = tick + 1
    /\ hist' = [hist EXCEPT !.move = NoMove]
    /\ UNCHANGED << assetVars, spawned, newMaps, worldVars, collisions, passVars, position, player >>

(***************************************************************************)
(* apply_movement.  The displacement velocity * time.delta_secs() of the   *)
(* tick is an input; it is zero when the velocity is.                      *)
(***************************************************************************)
\* The displacements an actor can ask for in one tick.
Steps == { <<0, 0>>, <<2, 0>>, <<0, 1>>, <<2, 1>>, <<-2, -1>> }

\* world_to_iso_tile: with sx = local.x / half_w and sy = local.y / half_h,
\* tx = (sy + sx) / 2 + center_x = (2 gw ly + 2 gh lx + (mw - 1) gw gh) / (2 gw gh),
\* ty likewise with - lx and mh, and the tile is (floor(tx), floor(ty)).
WorldToIsoTile(world, c) ==
    LET gw == c.grid_size[1]
        gh == c.grid_size[2]
        lx == world[1] - c.layer_offset[1]
        ly == world[2] - c.layer_offset[2]
        den == 2 * gw * gh
    IN  << (2 * gw * ly + 2 * gh * lx + (c.map_size[1] - 1) * gw * gh) \div den,
           (2 * gw * ly - 2 * gh * lx + (c.map_size[2] - 1) * gw * gh) \div den >>

\* apply_movement with a blocked move retried along the x axis alone.
MovedPositionSliding(current, step, c) ==
    LET target == << current[1] + step[1], current[2] + step[2] >>
        slide == << current[1] + step[1], current[2] >>
    IN  IF step = <<0, 0>> \/ c.blocked = {} THEN target
        ELSE IF WorldToIsoTile(target, c) \notin c.blocked THEN target
        ELSE IF WorldToIsoTile(slide, c) \notin c.blocked THEN slide
        ELSE current

\* apply_movement that holds every actor while the grid has no blocked cell.
MovedPositionGated(current, step, c) ==
    LET target == << current[1] + step[1], current[2] + step[2] >>
    IN  IF step = <<0, 0>> THEN target
        ELSE IF c.blocked = {} THEN current
        ELSE IF WorldToIsoTile(target, c) \in c.blocked THEN current
        ELSE target

\* The position apply_movement leaves an actor at.
MovedPosition(current, step, c) ==
    LET target == << current[1] + step[1], current[2] + step[2] >>
    IN  IF step = <<0, 0>> \/ c.blocked = {} THEN target
        ELSE IF WorldToIsoTile(target, c) \in c.blocked THEN current
        ELSE target

\* A scheduler that lets apply_movement read the resource while the pass writes it.
CollisionsReadableAlways == TRUE

\* apply_movement takes Res<CollisionTiles> and process_loaded_maps takes
\* ResMut<CollisionTiles>: the scheduler never runs one while the other runs.
CollisionsReadable == pc = "idle"

ApplyMovement(step) ==
    /\ tick < MaxTicks
    /\ "movement" \notin ran
    /\ CollisionsReadable
    /\ position' = MovedPosition(position, step, collisions)
    /\ ran' = ran \cup {"movement"}
    /\ hist' = [hist EXCEPT !.move =
                  [ done |-> TRUE, grid |-> collisions, from |-> position, step |-> step,
                    afterPass |-> "reconcile" \in ran ]]
    /\ UNCHANGED << assetVars, spawned, newMaps, worldVars, collisions, passVars, tick, player >>

\* The asset system and the level for the first two documents and their maps.
Environment(cap) ==
    \/ \E d \in {1, 2}, v \in 1 .. Len(MapDocs) : AssetAdded(d, v, cap)
    \/ \E d \in {1, 2}, v \in 1 .. Len(MapDocs) : AssetModified(d, v, cap)
    \/ \E d \in {1, 2} : AssetRemoved(d, cap)
    \/ \E m \in {1, 2} : SpawnMap(m)

Reconcile ==
    \/ BeginPass
    \/ RebuildMap
    \/ PrepareLayer
    \/ FillLayer
    \/ EndPass

Next ==
    \/ Environment(MaxEvents)
    \/ Reconcile
    \/ EndTick({"reconcile"})

Spec == Init /\ [][Next]_vars

\* The Update schedule with the movement system: process_loaded_maps and
\* apply_movement are registered without an order between them.
\* The asset system when only the first document is loaded and hot-reloaded.
ReloadEnvironment(cap) ==
    \/ \E v \in 1 .. Len(MapDocs) : AssetAdded(1, v, cap)
    \/ \E v \in 1 .. Len(MapDocs) : AssetModified(1, v, cap)

NextSched ==
    \/ ReloadEnvironment(MaxSchedEvents)
    \/ Reconcile
    \/ \E step \in Steps : ApplyMovement(step)
    \/ EndTick({"reconcile", "movement"})

SpecSched == Init /\ [][NextSched]_vars

\* A level whose map entity is spawned by the game and whose document loads
\* once: the third document and its map instance, with an actor that moves.
SceneSteps == { <<0, 0>>, <<0, 1>>, <<0, -1>>, <<2, 1>> }

SceneEnvironment(cap) ==
    \/ \E v \in 1 .. Len(MapDocs) : AssetAdded(3, v, cap)
    \/ SpawnMap(3)

NextScene ==
    \/ SceneEnvironment(MaxSceneEvents)
    \/ Reconcile
    \/ \E step \in SceneSteps : ApplyMovement(step)
    \/ EndTick({"reconcile", "movement"})

SpecScene == Init /\ [][NextScene]_vars

\* The third document loads and is hot-reloaded with every content it can have,
\* and its map entity is spawned.
LayerEnvironment(cap) ==
    \/ \E v \in 1 .. Len(MapDocs) : AssetAdded(3, v, cap)
    \/ \E v \in 1 .. Len(MapDocs) : AssetModified(3, v, cap)
    \/ SpawnMap(3)

NextLayers ==
    \/ LayerEnvironment(MaxLayerEvents)
    \/ Reconcile
    \/ EndTick({"reconcile"})

SpecLayers == Init /\ [][NextLayers]_vars

\* The first two documents are added, removed and added again; only the map
\* entity of the first exists.
BatchEnvironment(cap) ==
    \/ \E d \in {1, 2}, v \in 1 .. Len(MapDocs) : AssetAdded(d, v, cap)
    \/ \E d \in {1, 2} : AssetRemoved(d, cap)

NextBatch ==
    \/ BatchEnvironment(MaxBatchEvents)
    \/ Reconcile
    \/ EndTick({"reconcile"})

SpecBatch == Init /\ [][NextBatch]_vars

\* The map files of the first and third documents are loaded; either may fail to
\* parse.  The map entity of the third document is spawned by the game.
LoadEnvironment(cap) ==
    \/ \E d \in {1, 3}, v \in 1 .. Len(MapDocs) : AssetAdded(d, v, cap)
    \/ \E d \in {1, 3} : AssetLoadFailed(d, cap)
    \/ SpawnMap(3)

NextLoad ==
    \/ LoadEnvironment(MaxLoads)
    \/ Reconcile
    \/ EndTick({"reconcile"})

SpecLoad == Init /\ [][NextLoad]_vars

\* A level whose document is loaded, hot-reloaded and removed while an actor moves.
RemovalVersions == {1, 3, 6}
RemovalSteps == { <<0, 0>>, <<0, 1>> }

RemovalEnvironment(cap) ==
    \/ \E v \in RemovalVersions : AssetAdded(3, v, cap)
    \/ \E v \in RemovalVersions : AssetModified(3, v, cap)
    \/ AssetRemoved(3, cap)
    \/ SpawnMap(3)

NextRemoval ==
    \/ RemovalEnvironment(MaxRemovalEvents)
    \/ Reconcile
    \/ \E step \in RemovalSteps : ApplyMovement(step)
    \/ EndTick({"reconcile", "movement"})

SpecRemoval == Init /\ [][NextRemoval]_vars

\* The Update schedule of an actor with ScreenWrap: apply_movement and
\* apply_screen_wrap are chained.  window.size() is the size of the primary window.
WindowSizes == { <<256, 256>>, <<1280, 720>> }
WrapSteps == { <<0, 0>>, <<128, 0>>, <<-128, 0>>, <<0, 64>> }

\* (position + half_size).rem_euclid(size) - half_size, with size = window + 256
Wrapped(p, window) ==
    LET size == << window[1] + 256, window[2] + 256 >>
        half_size == << size[1] \div 2, size[2] \div 2 >>
    IN  << ((p[1] + half_size[1]) % size[1]) - half_size[1],
           ((p[2] + half_size[2]) % size[2]) - half_size[2] >>

ApplyScreenWrap(window) ==
    /\ "movement" \in ran
    /\ "wrap" \notin ran
    /\ position' = Wrapped(position, window)
    /\ ran' = ran \cup {"wrap"}
    /\ UNCHANGED << assetVars, spawned, newMaps, worldVars, collisions, passVars, tick,
                    player, hist >>

NextWrap ==
    \/ SceneEnvironment(MaxSceneEvents)
    \/ Reconcile
    \/ \E step \in WrapSteps : ApplyMovement(step)
    \/ \E window \in WindowSizes : ApplyScreenWrap(window)
    \/ EndTick({"reconcile", "movement", "wrap"})

SpecWrap == Init /\ [][NextWrap]_vars

(***************************************************************************)
(* The animation systems of a frame: update_animation_timer, then          *)
(* update_animation_movement, then update_animation_atlas.                 *)
(***************************************************************************)
\* The order of the animation systems in a frame.
AnimationSchedule == << "timer", "movement", "atlas" >>

PhaseAfter(phase) ==
    LET i == CHOOSE k \in DOMAIN AnimationSchedule : AnimationSchedule[k] = phase
    IN  AnimationSchedule[(i % Len(AnimationSchedule)) + 1]

\* time.delta() of a frame, and the intents record_player_directional_input leaves
\* (by their signs).
Deltas == {25, 50, 100}
Intents == (-1 .. 1) \X (-1 .. 1)

UpdateAnimationTimer(delta) ==
    /\ player.phase = "timer"
    /\ tick < MaxFrames
    /\ player' = [player EXCEPT !.animation = UpdateTimer(@, delta),
                                !.phase = PhaseAfter("timer")]
    /\ UNCHANGED << assetVars, spawned, newMaps, worldVars, collisions, passVars, ran,
                    tick, position, hist >>

UpdateAnimationMovement(intent) ==
    /\ player.phase = "movement"
    /\ LET a == player.animation
           state == RequestedState(intent)
           direction == RequestedDirection(intent, a.direction)
           after == UpdateStateAndDirection(a, state, direction)
       IN  /\ player' = [player EXCEPT !.animation = after, !.phase = PhaseAfter("movement")]
           /\ hist' = [hist EXCEPT !.anim =
                         [ done |-> TRUE, before |-> a, state |-> state,
                           direction |-> direction, after |-> after ]]
    /\ UNCHANGED << assetVars, spawned, newMaps, worldVars, collisions, passVars, ran,
                    tick, position >>

UpdateAnimationAtlas ==
    /\ player.phase = "atlas"
    /\ LET a == player.animation
       IN  player' = [player EXCEPT
                        !.sprite.index = GetAtlasIndex(a),
                        !.sprite.image =
                            IF Changed(a) THEN SpritesheetIndex(a.state, a.direction) ELSE @,
                        !.phase = PhaseAfter("atlas")]
    /\ tick' = tick + 1
    /\ UNCHANGED << assetVars, spawned, newMaps, worldVars, collisions, passVars, ran,
                    position, hist >>

NextAnimation ==
    \/ \E delta \in Deltas : UpdateAnimationTimer(delta)
    \/ \E intent \in Intents : UpdateAnimationMovement(intent)
    \/ UpdateAnimationAtlas

SpecAnimation == Init /\ [][NextAnimation]_vars

(***************************************************************************)
(* The coordinate transform in floating point.  An f32 is carried as the   *)
(* integer n of n / Scale; every operation rounds its exact result to      *)
(* Precision significant bits, to nearest, ties to even, as IEEE 754 does  *)
(* with 24 bits.                                                           *)
(***************************************************************************)
Scale == 2 ^ FractionBits

\* The weight of the last bit kept of a magnitude q.
RECURSIVE Ulp(_, _)
Ulp(q, u) == IF q \div u < 2 ^ Precision THEN u ELSE Ulp(q, 2 * u)

\* num / den rounded to a representable number (den > 0).
RoundQ(num, den) ==
    LET a == Abs(num)
        w == den * Ulp(a \div den, 1)
        cut == a \div w
        r == a - cut * w
        up == 2 * r > w \/ (2 * r = w /\ cut % 2 = 1)
        m == (IF up THEN cut + 1 ELSE cut) * (w \div den)
    IN  IF num < 0 THEN -m ELSE m

F32(n) == RoundQ(n * Scale, 1)
FAdd(a, b) == RoundQ(a + b, 1)
FSub(a, b) == RoundQ(a - b, 1)
FMul(a, b) == RoundQ(a * b, Scale)
FDiv(a, b) == IF b > 0 THEN RoundQ(a * Scale, b) ELSE RoundQ(-(a * Scale), -b)
\* f.floor() as i32
Floor(a) == a \div Scale
Half == Scale \div 2

\* world_to_iso_tile that does not undo the layer offset.
WorldToIsoTileNoOffset(world, c) ==
    LET half_w == FMul(c.grid_size[1], Half)
        half_h == FMul(c.grid_size[2], Half)
        center_x == FMul(FSub(F32(c.map_size[1]), F32(1)), Half)
        center_y == FMul(FSub(F32(c.map_size[2]), F32(1)), Half)
        sx == FDiv(world[1], half_w)
        sy == FDiv(world[2], half_h)
    IN  << Floor(FAdd(FMul(FAdd(sy, sx), Half), center_x)),
           Floor(FAdd(FMul(FSub(sy, sx), Half), center_y)) >>

\* world_to_iso_tile, operation by operation, on f32 values.
WorldToIsoTileF32(world, c) ==
    LET half_w == FMul(c.grid_size[1], Half)
        half_h == FMul(c.grid_size[2], Half)
        center_x == FMul(FSub(F32(c.map_size[1]), F32(1)), Half)
        center_y == FMul(FSub(F32(c.map_size[2]), F32(1)), Half)
        local == << FSub(world[1], c.layer_offset[1]), FSub(world[2], c.layer_offset[2]) >>
        sx == FDiv(local[1], half_w)
        sy == FDiv(local[2], half_h)
        tx == FAdd(FMul(FAdd(sy, sx), Half), center_x)
        ty == FAdd(FMul(FSub(sy, sx), Half), center_y)
    IN  << Floor(tx), Floor(ty) >>

\* The transform world_to_iso_tile inverts, as its comment gives it, for the
\* layer offsets (offset_x, offset_y) of the document:
\* world.x = (x - y - (center_x - center_y)) * half_w + offset_x
\* world.y = (x + y - (center_x + center_y)) * half_h - offset_y
Forward(tile, c, offset_x, offset_y) ==
    LET half_w == FMul(c.grid_size[1], Half)
        half_h == FMul(c.grid_size[2], Half)
        center_x == FMul(FSub(F32(c.map_size[1]), F32(1)), Half)
        center_y == FMul(FSub(F32(c.map_size[2]), F32(1)), Half)
        x == F32(tile[1])
        y == F32(tile[2])
    IN  << FAdd(FMul(FSub(FSub(x, y), FSub(center_x, center_y)), half_w), offset_x),
           FSub(FMul(FSub(FAdd(x, y), FAdd(center_x, center_y)), half_h), offset_y) >>

\* The grid a "Collisions" layer without cells leaves: map_size, grid_size and
\* layer_offset = (offset_x, -offset_y).
GridOf(mw, mh, gw, gh, offset_x, offset_y) ==
    [ blocked |-> {}, map_size |-> <<mw, mh>>, grid_size |-> << F32(gw), F32(gh) >>,
      layer_offset |-> << offset_x, -offset_y >> ]

\* Tile sizes and layer offsets of the documents the transform is probed with;
\* the offsets are given in eighths of a pixel.
GridSizes == {4, 6, 8}
Offsets == { (o * Scale) \div 8 : o \in {-29, 0, 3, 32, 43} }

\* One evaluation of the round trip: a tile of the map goes through Forward and
\* the position through world_to_iso_tile.
ProbeTransform ==
    /\ ~ hist.probe.done
    /\ pc = "idle" /\ ran = {} /\ tick = 0 /\ events = << >>
    /\ \E mw, mh \in 1 .. MaxMapSize, gw, gh \in GridSizes, ox, oy \in Offsets :
         \E x \in 0 .. mw - 1, y \in 0 .. mh - 1 :
            LET c == GridOf(mw, mh, gw, gh, ox, oy)
                world == Forward(<<x, y>>, c, ox, oy)
            IN  hist' = [hist EXCEPT !.probe =
                          [ done |-> TRUE, grid |-> c, tile |-> <<x, y>>,
                            offset |-> <<ox, oy>>, world |-> world,
                            back |-> WorldToIsoTileF32(world, c) ]]
    /\ UNCHANGED << assetVars, spawned, newMaps, worldVars, collisions, passVars, ran,
                    tick, position, player >>

NextTransform == ProbeTransform

SpecTransform == Init /\ [][NextTransform]_vars


(***************************************************************************)
(* Properties of the reconciler.                                           *)
(***************************************************************************)
\* The pass of this tick has returned and its commands are applied; the asset
\* system has not acted since.
PassDone == pc = "idle" /\ "reconcile" \in ran

Range(f) == { f[i] : i \in DOMAIN f }

\* The map instances the pass rebuilt.
Built == Range(hist.rebuilt)

CurrentDoc(m) == MapDocs[assets[TiledMapHandle[m]]]

CollisionLayers(doc) ==
    { i \in DOMAIN doc.layers :
        doc.layers[i].name = "Collisions" /\ doc.layers[i].kind = "finite" }

AllImagesResolved(doc) == \A i \in DOMAIN doc.tilesets : doc.tilesets[i].image

\* The rotated coordinate of every occupied cell of the Collisions layer, taken
\* from the cells in source coordinates: engine row = height - 1 - source row.
WholeLayerBlocked(doc) ==
    { << doc.height - 1 - c.y, doc.width - 1 - c.x >> :
        c \in UNION { doc.layers[i].cells : i \in CollisionLayers(doc) } }

\* C1: after a pass that rebuilt a map whose document has a finite layer named
\* "Collisions" and only tilesets with images, blocked holds the rotated coordinate
\* of every occupied cell of that layer, whatever tileset the cell's tile is from.
C1_BlockedIsWholeCollisionLayer ==
    PassDone =>
        \A m \in Built :
            LET doc == CurrentDoc(m)
            IN  (CollisionLayers(doc) # {} /\ AllImagesResolved(doc))
                    => collisions.blocked = WholeLayerBlocked(doc)

\* Document d has an Added or Modified event in the batch, a Removed event after
\* it, and no event after that Removed.
ChangedThenRemoved(batch, d) ==
    \E i, j \in DOMAIN batch :
        /\ i < j
        /\ batch[i].id = d /\ batch[i].kind \in {"Added", "Modified"}
        /\ batch[j].id = d /\ batch[j].kind = "Removed"
        /\ \A k \in DOMAIN batch : k > j => batch[k].id # d

\* C2: a document changed and then removed in the batch, with no later event and
\* no newly spawned map entity for it, is not in the change set of the pass, and
\* no map instance is rebuilt on its account.
C2_RemovedDocumentLeavesChangeSet ==
    \A d \in Docs :
        (ChangedThenRemoved(hist.batch, d)
            /\ d \notin { TiledMapHandle[m] : m \in hist.discovered })
        => /\ d \notin Range(changed_maps)
           /\ \A m \in Built : TiledMapHandle[m] # d

\* Document e has an Added or Modified event in the batch that is followed by a
\* Removed event for another document and by no Removed event for e.
ChangedBeforeOtherRemoved(batch, e) ==
    \E i, j \in DOMAIN batch :
        /\ i < j
        /\ batch[i].id = e /\ batch[i].kind \in {"Added", "Modified"}
        /\ batch[j].id # e /\ batch[j].kind = "Removed"
        /\ \A k \in DOMAIN batch : (k > i /\ batch[k].id = e) => batch[k].kind # "Removed"

\* C3: a Removed event for one document leaves the entries of every other document
\* in the change set, and the live map instances of those documents are rebuilt.
C3_RemovedKeepsOtherDocuments ==
    \A e \in Docs :
        ChangedBeforeOtherRemoved(hist.batch, e)
        => /\ e \in Range(changed_maps)
           /\ PassDone =>
                \A m \in spawned :
                    (TiledMapHandle[m] = e /\ assets[e] # Unloaded) => m \in Built

\* The layer indices a rebuild of the document builds a layer for.
BuiltIndices(doc) == { pair[2] : pair \in Range(LayerPairs(doc, 0, 0)) }

Ids(ents) == { x.id : x \in ents }

\* C4: after a pass, a rebuilt map instance has exactly one live layer handle per
\* built layer index, and it is the one the registry holds under that index.
C4_OneLiveHandlePerLayerIndex ==
    PassDone =>
        \A m \in Built : \A i \in BuiltIndices(CurrentDoc(m)) :
            LET handles == { l \in layerEnts : l.map = m /\ l.index = i }
            IN  /\ Cardinality(handles) = 1
                /\ i \in DOMAIN storage[m]
                /\ storage[m][i] \in Ids(handles)

\* C5: after a pass and its commands, no layer handle that was registered before a
\* rebuild is live, and no live layer handle refers to a destroyed tile placement.
C5_RetiredHandlesDestroyed ==
    PassDone =>
        /\ hist.retired \cap Ids(layerEnts) = {}
        /\ \A l \in layerEnts : l.storage \subseteq Ids(tileEnts)

\* C6: a map instance reconciled again from the same document content is left with
\* the same Collision Grid, registry keys and live tile placements as before.
C6_ReconcileIdempotent ==
    PassDone =>
        \A m \in Built :
            (hist.prevBuild[m].ver # Unloaded
                /\ hist.prevBuild[m].ver = hist.lastBuild[m].ver)
            => hist.prevBuild[m].sum = hist.lastBuild[m].sum

\* The placements the document prescribes: one per occupied cell of a finite tile
\* layer whose tile is of a tileset with an image, from the cells in source coordinates.
DocPlacements(doc) ==
    UNION { { [ position |-> << c.x, doc.height - 1 - c.y >>, texture_index |-> c.id,
                flip |-> c.flip, layer_index |-> i - 1 ] :
              c \in { c \in doc.layers[i].cells : c.ts \in TilemapTextures(doc) } } :
            i \in { i \in DOMAIN doc.layers : doc.layers[i].kind = "finite" } }

\* C7: every live tile placement is in the storage of exactly one live layer handle,
\* and after a rebuild the live placements of the instance are those the current
\* document prescribes, each once.
C7_LivePlacementsAreTheDocuments ==
    PassDone =>
        /\ \A t \in tileEnts : Cardinality({ l \in layerEnts : t.id \in l.storage }) = 1
        /\ \A m \in Built :
             PlacementBag(m, layerEnts, tileEnts)
                 = [ p \in DocPlacements(CurrentDoc(m)) |-> 1 ]



(***************************************************************************)
(* Properties of the schedule and of the movement query.                   *)
(***************************************************************************)
\* Every system of the tick has run.
TickDone == pc = "idle" /\ ran = {"reconcile", "movement"}

\* C8: in a tick that rebuilds a map, process_loaded_maps completes before
\* apply_movement reads the Collision Grid, so the move of that tick is checked
\* against the grid that tick built.
C8_RebuildPrecedesMovement ==
    (TickDone /\ Built # {})
    => (hist.move.afterPass /\ hist.move.grid = collisions)

\* C9: the grid apply_movement reads is, in all four fields, the grid from before
\* the tick's pass or the grid at the end of that pass.
C9_MovementSeesWholeGrid ==
    TickDone => (hist.move.grid = hist.gridBefore \/ hist.move.grid = collisions)

\* C9 witness: a tick whose pass changed the grid and whose movement read the new one.
C9_Witness ==
    /\ TickDone
    /\ hist.gridBefore # collisions
    /\ hist.gridBefore.blocked # {}
    /\ hist.move.grid = collisions

\* The world position lies in tile t: t <= (tx, ty) < t + 1 for the real tx, ty of
\* world_to_iso_tile, multiplied out by 2 gw gh.
InTile(world, t, c) ==
    LET gw == c.grid_size[1]
        gh == c.grid_size[2]
        lx == world[1] - c.layer_offset[1]
        ly == world[2] - c.layer_offset[2]
        den == 2 * gw * gh
        nx == 2 * gw * ly + 2 * gh * lx + (c.map_size[1] - 1) * gw * gh
        ny == 2 * gw * ly - 2 * gh * lx + (c.map_size[2] - 1) * gw * gh
    IN  /\ t[1] * den <= nx /\ nx < (t[1] + 1) * den
        /\ t[2] * den <= ny /\ ny < (t[2] + 1) * den

MoveTarget == << hist.move.from[1] + hist.move.step[1], hist.move.from[2] + hist.move.step[2] >>

TargetBlocked == \E t \in hist.move.grid.blocked : InTile(MoveTarget, t, hist.move.grid)

\* C10: with a non-empty blocked set and a non-zero velocity, apply_movement leaves
\* the position unchanged when the destination's tile is blocked and sets it to the
\* destination otherwise.
C10_MoveIsAllOrNothing ==
    (hist.move.done /\ hist.move.grid.blocked # {} /\ hist.move.step # <<0, 0>>)
    => position = IF TargetBlocked THEN hist.move.from ELSE MoveTarget

\* C10 witness: a diagonal move into a blocked tile was rejected although the
\* destination of its y component alone is free.
C10_Witness ==
    /\ hist.move.done /\ hist.move.grid.blocked # {}
    /\ hist.move.step[1] # 0 /\ hist.move.step[2] # 0
    /\ TargetBlocked
    /\ position = hist.move.from
    /\ ~ \E t \in hist.move.grid.blocked :
            InTile(<< hist.move.from[1] + hist.move.step[1], hist.move.from[2] >>,
                   t, hist.move.grid)

\* C11: while the blocked set of the grid is empty, apply_movement adds the whole
\* displacement to the position, whatever map_size, grid_size and layer_offset are
\* (a zero grid size included).
C11_EmptyGridNeverBlocks ==
    (hist.move.done /\ hist.move.grid.blocked = {})
        => position = MoveTarget

\* A non-zero move applied in full against a grid that a "Collisions" layer has
\* sized and offset but that holds no blocked cell.
C11_Witness ==
    /\ hist.move.done /\ hist.move.grid.blocked = {}
    /\ hist.move.grid.grid_size # <<0, 0>> /\ hist.move.grid.layer_offset # <<0, 0>>
    /\ hist.move.step # <<0, 0>>
    /\ position = MoveTarget

\* The live tiles of the layer handle registered for layer index li of map m.
RegisteredTiles(m, li) ==
    { t \in tileEnts : li \in DOMAIN storage[m] /\ t.tilemap_id = storage[m][li] }

\* The grid of the scenario: a 3x3 map of 32x32 tiles, no offset, the centre blocked.
ScenarioGrid ==
    [blocked |-> {<<1, 1>>}, map_size |-> <<3, 3>>, grid_size |-> <<32, 32>>,
     layer_offset |-> <<0, 0>>]

IsWhole(a) == a % Scale = 0

NewLayers(m) == { l \in layerEnts : l.map = m /\ l.id >= hist.firstEntity }

\* The live tiles that belong to layer handle l.
TilesIn(l) == { t \in tileEnts : t.tilemap_id = l.id }

\* The finite tile layers of a document, by 0-based index.
FiniteLayers(doc) == { i - 1 : i \in { j \in DOMAIN doc.layers : doc.layers[j].kind = "finite" } }

\* The cells of layer li of the document whose tile is from tileset ts.
CellsOf(doc, ts, li) == { c \in doc.layers[li + 1].cells : c.ts = ts }

\* C14: when a tileset of the document has no image, the pass still completes and
\* builds, for every tileset with an image and every finite tile layer, a layer
\* with a placement for every cell of that tileset; nothing is built for the
\* tileset without image and no tile of it is placed.
C14_ImagelessTilesetSkipped ==
    (PassDone /\ 3 \in Built /\ ~ AllImagesResolved(CurrentDoc(3))) =>
        LET doc == CurrentDoc(3)
        IN  /\ \A ts \in TilemapTextures(doc), li \in FiniteLayers(doc) :
                  \E l \in NewLayers(3) :
                      /\ l.index = li /\ l.tileset = ts
                      /\ \A c \in CellsOf(doc, ts, li) :
                            \E t \in TilesIn(l) :
                                /\ t.position = << c.x, doc.height - 1 - c.y >>
                                /\ t.texture_index = c.id
            /\ \A l \in NewLayers(3) :
                  /\ l.tileset \in TilemapTextures(doc)
                  /\ \A t \in TilesIn(l) :
                        \E c \in CellsOf(doc, l.tileset, l.index) :
                            /\ t.position = << c.x, doc.height - 1 - c.y >>
                            /\ t.texture_index = c.id

\* The document with a tileset without image was rebuilt: the layers of the other
\* tileset exist, with tiles, and the tile of the tileset without image at source
\* cell (0,0) of layer 0 is nowhere.
C14_Witness ==
    /\ PassDone /\ 3 \in Built /\ assets[3] = 4
    /\ \E l \in NewLayers(3) : l.tileset = 1 /\ l.index = 0 /\ Cardinality(TilesIn(l)) = 2
    /\ \E l \in NewLayers(3) : l.tileset = 1 /\ l.index = 1
    /\ ~ \E l \in NewLayers(3) : \E t \in TilesIn(l) : t.position = <<0, 1>>

\* C15: a live map instance that an earlier pass saw while its document was
\* unresolved is rebuilt once the document has resolved: after every pass, each
\* instance discovered before that pass whose document is loaded has been built.
C15_SkippedInstanceRebuiltOnceResolved ==
    PassDone =>
        \A m \in spawned \ hist.discovered :
            assets[TiledMapHandle[m]] # Unloaded => hist.lastBuild[m] # NoBuild

\* The number of times the pass rebuilt map instance m.
TimesRebuilt(m) == Cardinality({ i \in DOMAIN hist.rebuilt : hist.rebuilt[i] = m })

\* C16: however many notifications of the batch name its document, a map instance
\* is rebuilt once in the pass, and the pass leaves one new layer, with its tiles,
\* for each (tileset, layer index) of the instance, as a single notification does.
C16_ChangedDocumentsFormASet ==
    PassDone =>
        \A m \in Built :
            /\ TimesRebuilt(m) = 1
            /\ \A l1, l2 \in NewLayers(m) :
                  (l1.index = l2.index /\ l1.tileset = l2.tileset) => l1 = l2

\* C17: a map entity the pass sees for the first time is rebuilt in that pass when
\* its document is loaded, whatever the batch holds: no Added or Modified event for
\* the document is needed and a Removed event for another document changes nothing.
C17_NewMapEntityIsRebuilt ==
    PassDone =>
        \A m \in hist.discovered :
            assets[TiledMapHandle[m]] # Unloaded => m \in Built

\* A new map entity was rebuilt by a pass whose batch names its document in no
\* event and holds a Removed event for another document.
C17_Witness ==
    /\ PassDone
    /\ \E m \in hist.discovered :
          /\ m \in Built
          /\ \A i \in DOMAIN hist.batch : hist.batch[i].id # TiledMapHandle[m]
          /\ \E i \in DOMAIN hist.batch : hist.batch[i].kind = "Removed"
          /\ TilesOf(m, layerEnts, tileEnts) # {}

\* The layers of a document that are not finite tile layers, by 0-based index.
SkippedLayers(doc) == { i - 1 : i \in { j \in DOMAIN doc.layers : doc.layers[j].kind # "finite" } }

\* C18: for a layer that is not a tile layer, or is an infinite one, the pass makes
\* no layer handle, registers none under its index and places no tile, and it still
\* builds the finite tile layers of the document.
C18_OtherLayerKindsSkipped ==
    (PassDone /\ 3 \in Built) =>
        LET doc == CurrentDoc(3)
        IN  /\ \A li \in SkippedLayers(doc) :
                  /\ ~ \E l \in NewLayers(3) : l.index = li
                  /\ li \in DOMAIN storage[3] => storage[3][li] < hist.firstEntity
            /\ \A t \in tileEnts :
                  t.id >= hist.firstEntity =>
                      \E l \in NewLayers(3) : l.id = t.tilemap_id /\ l.index \in FiniteLayers(doc)
            /\ \A ts \in TilemapTextures(doc), li \in FiniteLayers(doc) :
                  \E l \in NewLayers(3) :
                      /\ l.index = li /\ l.tileset = ts
                      /\ Cardinality(TilesIn(l)) = Cardinality(CellsOf(doc, ts, li))

\* The document with an object layer, an infinite layer that has a cell and two
\* finite layers was rebuilt: layers 2 and 3 have their tiles, 0 and 1 have nothing.
C18_Witness ==
    /\ PassDone /\ 3 \in Built /\ assets[3] = 5
    /\ SkippedLayers(CurrentDoc(3)) = {0, 1}
    /\ \E l \in NewLayers(3) : l.index = 2 /\ Cardinality(TilesIn(l)) = 1
    /\ \E l \in NewLayers(3) : l.index = 3 /\ Cardinality(TilesIn(l)) = 2
    /\ \A l \in NewLayers(3) : l.index \in {2, 3}

\* C19: a pass that rebuilds only documents without a finite tile layer named
\* exactly "Collisions" leaves the four fields of the Collision Grid as they were,
\* whatever other layers the documents have: a layer with another name (such as
\* "collisions"), an object layer or an infinite layer named "Collisions".
C19_OnlyCollisionsLayerWritesGrid ==
    (PassDone /\ \A m \in Built : CollisionLayers(CurrentDoc(m)) = {})
        => collisions = hist.gridBefore

\* A grid with blocked cells, built from an earlier content of the document, has
\* come unchanged through the rebuild of the content that has an object layer and
\* an infinite layer named "Collisions" and a finite layer named "collisions".
C19_Witness ==
    /\ PassDone /\ 3 \in Built /\ assets[3] = 5
    /\ \E i, j, k \in DOMAIN CurrentDoc(3).layers :
          /\ CurrentDoc(3).layers[i].name = "Collisions" /\ CurrentDoc(3).layers[i].kind = "object"
          /\ CurrentDoc(3).layers[j].name = "Collisions" /\ CurrentDoc(3).layers[j].kind = "infinite"
          /\ CurrentDoc(3).layers[k].name = "collisions" /\ CurrentDoc(3).layers[k].kind = "finite"
    /\ hist.gridBefore.blocked # {}
    /\ collisions = hist.gridBefore

\* What a tile shows and where.
Shown(t) == [position |-> t.position, texture_index |-> t.texture_index, flip |-> t.flip]

\* C20: every layer the pass builds is for a tileset with an image and a finite tile
\* layer, and holds one tile for each source cell (x, ry) with a tile of that
\* tileset, at (x, height - 1 - ry), with the tile's local id and its three flip
\* flags, and no other tile; every such (tileset, layer) pair has its layer.
C20_OnePlacementPerOccupiedCell ==
    (PassDone /\ 3 \in Built) =>
        LET doc == CurrentDoc(3)
        IN  /\ \A l \in NewLayers(3) :
                  /\ l.tileset \in TilemapTextures(doc) /\ l.index \in FiniteLayers(doc)
                  /\ { Shown(t) : t \in TilesIn(l) } =
                        { [ position |-> << c.x, doc.height - 1 - c.y >>,
                            texture_index |-> c.id, flip |-> c.flip ] :
                              c \in CellsOf(doc, l.tileset, l.index) }
                  /\ Cardinality(TilesIn(l)) = Cardinality(CellsOf(doc, l.tileset, l.index))
            /\ \A ts \in TilemapTextures(doc), li \in FiniteLayers(doc) :
                  \E l \in NewLayers(3) : l.tileset = ts /\ l.index = li

\* A rebuilt layer of a document with two tilesets holds, for the source cell (1,0)
\* with a diagonally flipped tile of local id 2, one tile at (1,1) with that id and
\* flag, and two tiles in all, the layer's third cell being of the other tileset.
C20_Witness ==
    /\ PassDone /\ 3 \in Built /\ assets[3] = 4
    /\ Cardinality(CurrentDoc(3).layers[1].cells) = 3
    /\ \E l \in NewLayers(3) :
          /\ l.index = 0 /\ l.tileset = 1
          /\ Cardinality(TilesIn(l)) = 2
          /\ \E t \in TilesIn(l) :
                Shown(t) = [position |-> <<1, 1>>, texture_index |-> 2,
                            flip |-> <<FALSE, FALSE, TRUE>>]

\* C21: after a pass rebuilt a document with a finite layer named "Collisions",
\* map_size is the document's (width, height), grid_size its (tile_width,
\* tile_height) and layer_offset the layer's (offset_x, -offset_y), which is the
\* x, y translation of the layer entity built for that layer.
C21_GridParametersFromDocument ==
    (PassDone /\ 3 \in Built /\ TilemapTextures(CurrentDoc(3)) # {}) =>
        LET doc == CurrentDoc(3)
        IN  \A i \in CollisionLayers(doc) :
                /\ collisions.map_size = << doc.width, doc.height >>
                /\ collisions.grid_size = << doc.tile_width, doc.tile_height >>
                /\ collisions.layer_offset = << doc.layers[i].offset_x, -doc.layers[i].offset_y >>
                /\ \E l \in NewLayers(3) : l.index = i - 1
                /\ \A l \in NewLayers(3) :
                      l.index = i - 1 =>
                          << l.translation[1], l.translation[2] >> = collisions.layer_offset

\* The rebuilt Collisions layer has a non-zero offset on both axes; the grid holds
\* the sizes of the document and the offset with its y negated.
C21_Witness ==
    /\ PassDone /\ 3 \in Built /\ assets[3] = 4
    /\ collisions.map_size = <<2, 2>> /\ collisions.grid_size = <<4, 2>>
    /\ collisions.layer_offset = <<4, -2>>
    /\ \E l \in NewLayers(3) : l.index = 1 /\ l.translation = <<4, -2, 1>>

\* The render settings of the diamond isometric projection.
PerCellSorted == [render_chunk_size |-> <<1, 1>>, y_sort |-> TRUE]

\* C22: a layer the pass builds carries chunk size 1x1 and depth sorting when the
\* document is Isometric, and the render settings the map instance was configured
\* with when it is Orthogonal, Staggered or Hexagonal, whatever the instance was
\* built from before.
C22_PerCellSortingOnlyForIsometric ==
    (PassDone /\ 3 \in Built) =>
        \A l \in NewLayers(3) :
            l.render_settings =
                IF CurrentDoc(3).orientation = "Isometric"
                THEN PerCellSorted ELSE DefaultRenderSettings

\* The live layer handles and tiles of map instance m.
LayersOf(m) == { l \in layerEnts : l.map = m }

\* C23: a map file that fails to parse yields no document and no notification: no
\* event of any batch names it, and no pass tears down or rebuilds anything for a
\* map instance bound to it, in the tick of the failure or any later one.
C23_ParseFailureChangesNothing ==
    \A d \in Docs :
        assets[d] = Failed =>
            /\ \A i \in DOMAIN events : events[i].id # d
            /\ \A i \in DOMAIN hist.batch : hist.batch[i].id # d
            /\ \A m \in spawned :
                  TiledMapHandle[m] = d =>
                      /\ m \notin Built
                      /\ storage[m] = << >>
                      /\ LayersOf(m) = {}
                      /\ hist.lastBuild[m] = NoBuild

\* Two passes after its file failed to parse, the third document's map instance is
\* still without layers, while the pass has just built the first document's.
C23_Witness ==
    /\ PassDone /\ hist.passes >= 2
    /\ assets[3] = Failed /\ 3 \in spawned /\ 3 \notin hist.discovered
    /\ LayersOf(3) = {} /\ storage[3] = << >>
    /\ 1 \in Built /\ LayersOf(1) # {}

\* The batch holds a Removed event for document d and, after it, an Added or
\* Modified event for d.
ChangedAfterRemoved(batch, d) ==
    \E i, j \in DOMAIN batch :
        /\ i < j
        /\ batch[i].id = d /\ batch[i].kind = "Removed"
        /\ batch[j].id = d /\ batch[j].kind \in {"Added", "Modified"}

\* The documents with an Added or Modified event that no Removed event for the
\* same document follows in the batch.
ChangesKept(batch) ==
    { batch[j].id : j \in { k \in DOMAIN batch :
        /\ batch[k].kind \in {"Added", "Modified"}
        /\ \A n \in DOMAIN batch :
              n > k => ~ (batch[n].id = batch[k].id /\ batch[n].kind = "Removed") } }

\* C24: when a batch holds an Added or Modified event for document D after a
\* Removed event for D, the change set of the pass holds D, D's live map instances
\* are rebuilt if D is loaded, and the only changes of the batch that are left out
\* are those a removal of the same document follows.
C24_ChangeAfterRemovalIsKept ==
    PassDone =>
        \A d \in Docs :
            ChangedAfterRemoved(hist.batch, d) =>
                /\ d \in ChangesKept(hist.batch) => d \in Range(changed_maps)
                /\ \A m \in spawned :
                      (TiledMapHandle[m] = d /\ d \in ChangesKept(hist.batch)
                            /\ assets[d] # Unloaded) => m \in Built
                /\ Range(changed_maps) =
                      ChangesKept(hist.batch) \cup { TiledMapHandle[m] : m \in hist.discovered }

\* The animation systems of a frame have all run.
FrameDone == player.phase = "timer" /\ hist.anim.done

\* The spritesheet assigned to a state and direction.
AssignedSheet(state, direction) ==
    CASE state = "Idling" /\ direction = "East" -> 0
      [] state = "Idling" /\ direction = "North" -> 1
      [] state = "Idling" /\ direction = "South" -> 2
      [] state = "Idling" /\ direction = "West" -> 3
      [] state = "Running" /\ direction = "East" -> 4
      [] state = "Running" /\ direction = "North" -> 5
      [] state = "Running" /\ direction = "South" -> 6
      [] state = "Running" /\ direction = "West" -> 7

\* C25: once the animation systems of a frame have run, the sprite shows the
\* spritesheet assigned to the animation's state and direction, also in the frame
\* in which the state or the direction changed.
C25_SpritesheetFollowsAnimation ==
    FrameDone =>
        player.sprite.image = AssignedSheet(player.animation.state, player.animation.direction)

\* C26: update_state_and_direction leaves the animation as it is when the requested
\* state and direction are the current ones; otherwise the animation has the
\* requested state and direction, frame 0 and a timer restarted with the interval
\* of the requested state.  The frame is always within 0..7.
C26_UpdateStateAndDirection ==
    /\ player.animation.frame \in 0 .. 7
    /\ hist.anim.done =>
         LET c == hist.anim
         IN  IF c.state = c.before.state /\ c.direction = c.before.direction
             THEN c.after = c.before
             ELSE c.after =
                    [ timer |-> [ elapsed |-> 0,
                                  duration |-> IF c.state = "Idling" THEN 100 ELSE 50,
                                  finished |-> FALSE ],
                      frame |-> 0, state |-> c.state, direction |-> c.direction ]

\* a call with the current state and direction kept the last frame and a timer
\* that was under way; an earlier call had started the running animation.
C26_Witness ==
    /\ hist.anim.done
    /\ hist.anim.state = hist.anim.before.state
    /\ hist.anim.direction = hist.anim.before.direction
    /\ hist.anim.before.state = "Running"
    /\ hist.anim.before.frame = 7
    /\ hist.anim.before.timer.elapsed > 0
    /\ hist.anim.after = hist.anim.before

\* The coordinates a map of the grid's size has.
InsideMap(grid) == (0 .. grid.map_size[1] - 1) \X (0 .. grid.map_size[2] - 1)

\* C27: after a reconciliation pass every blocked coordinate of the grid lies within
\* [0, map_size.x) x [0, map_size.y), for square and non-square maps.
C27_BlockedInsideMap ==
    PassDone => collisions.blocked \subseteq InsideMap(collisions)

\* The systems of a tick of the wrapping actor have all run.
WrapTickDone == pc = "idle" /\ ran = {"reconcile", "movement", "wrap"}

OnBlocked(world, grid) == \E t \in grid.blocked : InTile(world, t, grid)

\* C28: in a tick in which the grid is non-empty and stays as it is, an actor with
\* ScreenWrap that begins the tick on a tile that is not blocked is not on a blocked
\* tile when apply_movement and apply_screen_wrap have run.
C28_NeverOnBlockedTile ==
    ( /\ WrapTickDone /\ hist.move.done
      /\ collisions.blocked # {} /\ hist.move.grid = collisions
      /\ ~ OnBlocked(hist.move.from, collisions) )
    => ~ OnBlocked(position, collisions)

\* C29: after a pass, the keys of the registry of a rebuilt map instance are exactly
\* the indices of the layers built from the current document; an index that is no
\* longer a finite tile layer of the document has no entry.
C29_RegistryKeysAreBuiltIndices ==
    PassDone =>
        \A m \in Built : DOMAIN storage[m] = BuiltIndices(CurrentDoc(m))

\* The live tile placements of map instance m among the given layers and tiles.
PlacementsOf(m, layers, tiles) ==
    { t \in tiles : \E l \in layers : l.map = m /\ t.tilemap_id = l.id }

\* The batch of the pass holds a Removed event for document d and Assets holds
\* nothing for d when the pass runs.
RemovedInPass(d) ==
    /\ \E i \in DOMAIN hist.batch : hist.batch[i] = AssetEvent("Removed", d)
    /\ assets[d] = Unloaded

\* C30: a pass whose batch removes document D leaves the registry, the live layer
\* handles and the tile placements of D's map instances, and the Collision Grid, as
\* they were before the pass; a move of that tick made after the pass is checked
\* against that grid.
C30_RemovedTearsNothingDown ==
    PassDone =>
        \A d \in Docs :
            RemovedInPass(d) =>
                /\ \A m \in spawned :
                      TiledMapHandle[m] = d =>
                          /\ storage[m] = hist.worldBefore.storage[m]
                          /\ LayersOf(m) = { l \in hist.worldBefore.layerEnts : l.map = m }
                          /\ PlacementsOf(m, layerEnts, tileEnts)
                                = PlacementsOf(m, hist.worldBefore.layerEnts,
                                               hist.worldBefore.tileEnts)
                /\ (Built = {} => collisions = hist.gridBefore)
                /\ (Built = {} /\ hist.move.done /\ hist.move.afterPass)
                      => hist.move.grid = hist.gridBefore

\* The document was built, then reloaded and removed in one batch, so that the pass
\* visited its map instance; the layers, tiles and the blocked cell are still
\* there, and the move after the pass was rejected by that blocked cell.
C30_Witness ==
    /\ PassDone /\ RemovedInPass(3) /\ 3 \in spawned
    /\ 3 \in Range(changed_maps)
    /\ DOMAIN storage[3] # {}
    /\ PlacementsOf(3, layerEnts, tileEnts) # {}
    /\ collisions = ScenarioGrid
    /\ hist.move.done /\ hist.move.afterPass
    /\ hist.move.step = <<0, 1>> /\ position = hist.move.from

====
